---- MODULE Spec2Model ----
(***************************************************************************)
(* A model of noxfile.py: the nox sessions of the documentation project,   *)
(* the install() helper, the container engine resolver, the discovery of   *)
(* the requirement sets and the argument composition of every session.     *)
(*                                                                         *)
(* Python values are modelled as follows:                                  *)
(*   str            a TLA+ string (TLC treats it as a sequence of chars)   *)
(*   list / tuple   a sequence                                             *)
(*   dict           a function whose domain is the set of keys             *)
(*   Optional[x]    <<>> for None, <<x>> for a value                       *)
(***************************************************************************)
EXTENDS FiniteSets, Integers, Sequences, TLC

VARIABLES
    environ,             \* os.environ: the variables of the nox process
    onPath,              \* the executables shutil.which finds on the search path
    testsDir,            \* the file names present in tests/
    loaded,              \* whether noxfile.py has been imported
    requirements_files,  \* the module-level list of requirement sets
    checker_tests,       \* the module-level list of checker names
    selected,            \* the session names given on the nox command line
    call,                \* the arguments of a pending install() call
    logged,              \* the lines the last session wrote with session.log
    resolved,            \* the outcome of the last _get_container_engine call
    posargs,             \* session.posargs
    queue,               \* the manifest's queue of sessions still to run
    consumed,            \* the sessions already run, in order: [name, param]
    notified,            \* the names passed to session.notify, in order
    ops,                 \* the operations the last session executed
    result               \* how the last session ended: [status, message]

vars == <<environ, onPath, testsDir, loaded, requirements_files, checker_tests,
          selected, call, logged, resolved, posargs, queue, consumed, notified,
          ops, result>>

None == <<>>
Some(x) == <<x>>

(***************************************************************************)
(* Strings                                                                 *)
(***************************************************************************)
StartsWith(s, p) == Len(s) >= Len(p) /\ SubSeq(s, 1, Len(p)) = p

EndsWith(s, p) == Len(s) >= Len(p) /\ SubSeq(s, Len(s) - Len(p) + 1, Len(s)) = p

StartsWithAny(s, prefixes) == \E p \in prefixes : StartsWith(s, p)

\* str.replace(old, new): every non-overlapping occurrence, left to right.
RECURSIVE Replace(_, _, _)
Replace(s, old, new) ==
    IF Len(s) < Len(old) THEN s
    ELSE IF StartsWith(s, old)
         THEN new \o Replace(SubSeq(s, Len(old) + 1, Len(s)), old, new)
         ELSE SubSeq(s, 1, 1) \o Replace(SubSeq(s, 2, Len(s)), old, new)

UpperCase == <<"A", "B", "C", "D", "E", "F", "G", "H", "I", "J", "K", "L", "M",
               "N", "O", "P", "Q", "R", "S", "T", "U", "V", "W", "X", "Y", "Z">>
LowerCase == <<"a", "b", "c", "d", "e", "f", "g", "h", "i", "j", "k", "l", "m",
               "n", "o", "p", "q", "r", "s", "t", "u", "v", "w", "x", "y", "z">>

LowerChar(c) ==
    IF \E i \in 1..Len(UpperCase) : UpperCase[i] = c
    THEN LowerCase[CHOOSE i \in 1..Len(UpperCase) : UpperCase[i] = c]
    ELSE c

\* str.lower()
RECURSIVE Lower(_)
Lower(s) ==
    IF s = "" THEN ""
    ELSE LowerChar(SubSeq(s, 1, 1)) \o Lower(SubSeq(s, 2, Len(s)))

\* The characters shlex.quote leaves unquoted: [a-zA-Z0-9@%+=:,./-] and "_".
SafeChars ==
    {UpperCase[i] : i \in 1..Len(UpperCase)} \cup
    {LowerCase[i] : i \in 1..Len(LowerCase)} \cup
    {"0", "1", "2", "3", "4", "5", "6", "7", "8", "9"} \cup
    {"@", "%", "+", "=", ":", ",", ".", "/", "-", "_"}

\* shlex.quote(s)
ShlexQuote(s) ==
    IF s = "" THEN "''"
    ELSE IF \A i \in 1..Len(s) : SubSeq(s, i, i) \in SafeChars THEN s
    ELSE "'" \o Replace(s, "'", "'\"'\"'") \o "'"

(***************************************************************************)
(* Dictionaries                                                            *)
(***************************************************************************)
EmptyDict == [k \in {} |-> ""]

\* dict.get(key, default)
Get(d, key, default) == IF key \in DOMAIN d THEN d[key] ELSE default

\* d.update(e): the entries of e replace those of d with the same key.
Update(d, e) ==
    [k \in DOMAIN d \cup DOMAIN e |-> IF k \in DOMAIN e THEN e[k] ELSE d[k]]

\* d.setdefault(key, default), as the dictionary it leaves behind.
SetDefault(d, key, default) ==
    [k \in DOMAIN d \cup {key} |-> IF k \in DOMAIN d THEN d[k] ELSE default]

(***************************************************************************)
(* Module-level configuration, read once from the environment              *)
(***************************************************************************)
PINNED == Lower(Get(environ, "PINNED", "true")) \in {"1", "true"}

CHOSEN_CONTAINER_ENGINE ==
    IF "CONTAINER_ENGINE" \in DOMAIN environ
    THEN Some(environ["CONTAINER_ENGINE"]) ELSE None

CONTAINER_ENGINES == <<"podman", "docker">>

ACTIONLINT_IMAGE == "docker.io/rhysd/actionlint"

LINT_FILES == <<"hacking/pr_labeler/pr_labeler", "hacking/tagger/tag.py",
                "noxfile.py", "docs/bin/clone-core.py">>

DefaultSessions == <<"clone-core", "lint", "checkers", "make">>

\* Python truthiness of an Optional[str]: None and "" are false.
Truthy(opt) == opt # None /\ opt[1] # ""

(***************************************************************************)
(* _set_env_verbose and install                                            *)
(***************************************************************************)
PinKeys == {"PIP_CONSTRAINT", "UV_CONSTRAINT", "UV_BUILD_CONSTRAINT"}

PinKeyOrder == <<"PIP_CONSTRAINT", "UV_CONSTRAINT", "UV_BUILD_CONSTRAINT">>

ConstraintPath(req) == "tests/" \o req \o ".txt"

InputPath(req) == "tests/" \o req \o ".in"

\* _set_env_verbose(session, **env): the dictionary it returns.
SetEnvVerbose(env) == [k \in DOMAIN env |-> env[k]]

\* _set_env_verbose(session, **env): the lines it logs, in keyword order.
SetEnvVerboseLog(keys, env) ==
    [i \in 1..Len(keys) |->
        "export " \o keys[i] \o "=" \o ShlexQuote(env[keys[i]])]

PinEnv(req) == [k \in PinKeys |-> ConstraintPath(req)]

InstallKwargsMutantCallerWins(req, kwargs) ==
    LET kw == SetDefault(kwargs, "env", EmptyDict)
    IN  [kw EXCEPT !["env"] = Update(SetEnvVerbose(PinEnv(req)), kw["env"])]

InstallKwargsMutantTwoVars(req, kwargs) ==
    LET kw == SetDefault(kwargs, "env", EmptyDict)
        two == [k \in {"PIP_CONSTRAINT", "UV_CONSTRAINT"} |-> ConstraintPath(req)]
    IN  [kw EXCEPT !["env"] = Update(kw["env"], SetEnvVerbose(two))]

\* The keyword arguments install() hands to session.install when PINNED.
InstallKwargs(req, kwargs) ==
    LET kw == SetDefault(kwargs, "env", EmptyDict)
    IN  [kw EXCEPT !["env"] = Update(kw["env"], SetEnvVerbose(PinEnv(req)))]

\* install(session, *args, req=req, **kwargs): the session.install call.
InstallCall(req, args, kwargs) ==
    [argv   |-> <<"-r", InputPath(req)>> \o args,
     kwargs |-> IF PINNED THEN InstallKwargs(req, kwargs) ELSE kwargs]

\* install(...): the lines it logs.
InstallLog(req) ==
    IF PINNED THEN SetEnvVerboseLog(PinKeyOrder, PinEnv(req)) ELSE <<>>

(***************************************************************************)
(* _get_container_engine                                                   *)
(***************************************************************************)
\* shutil.which(name)
Which(name) == IF name \in onPath THEN Some("/usr/bin/" \o name) ELSE None

\* The candidates probed up to and including the first one found.
RECURSIVE Probe(_, _)
Probe(engines, probed) ==
    IF engines = <<>>
    THEN [status |-> "error", path |-> None, probed |-> probed,
          message |-> "None of the following container engines were found"]
    ELSE IF Which(Head(engines)) # None
         THEN [status |-> "ok", path |-> Which(Head(engines)),
               probed |-> Append(probed, Head(engines)), message |-> ""]
         ELSE Probe(Tail(engines), Append(probed, Head(engines)))

GetContainerEngineMutantFallback ==
    IF Truthy(CHOSEN_CONTAINER_ENGINE) /\ Which(CHOSEN_CONTAINER_ENGINE[1]) # None
    THEN [status |-> "ok", path |-> Which(CHOSEN_CONTAINER_ENGINE[1]),
          probed |-> <<CHOSEN_CONTAINER_ENGINE[1]>>, message |-> ""]
    ELSE Probe(CONTAINER_ENGINES, <<>>)

GetContainerEngineMutantLastFound ==
    LET found == {i \in 1..Len(CONTAINER_ENGINES) : Which(CONTAINER_ENGINES[i]) # None}
        last  == CHOOSE i \in found : \A j \in found : j <= i
    IN  IF found = {} THEN Probe(CONTAINER_ENGINES, <<>>)
        ELSE [status |-> "ok", path |-> Which(CONTAINER_ENGINES[last]),
              probed |-> CONTAINER_ENGINES, message |-> ""]

\* _get_container_engine(session): what it returns or the error it raises,
\* and the names it passed to shutil.which.
GetContainerEngine ==
    IF Truthy(CHOSEN_CONTAINER_ENGINE)
    THEN LET path == Which(CHOSEN_CONTAINER_ENGINE[1])
         IN  IF path = None
             THEN [status |-> "error", path |-> None,
                   probed |-> <<CHOSEN_CONTAINER_ENGINE[1]>>,
                   message |-> "CONTAINER_ENGINE does not exist!"]
             ELSE [status |-> "ok", path |-> path,
                   probed |-> <<CHOSEN_CONTAINER_ENGINE[1]>>, message |-> ""]
    ELSE Probe(CONTAINER_ENGINES, <<>>)

(***************************************************************************)
(* requirements_files                                                      *)
(***************************************************************************)
Denylist == {"constraints", "constraints-base"}

\* Path("tests").glob("*in"): the names that end in "in".
Glob(files) == {f \in files : EndsWith(f, "in")}

BaseName(f) == Replace(f, ".in", "")

DiscoverMutantDenyFileNames(files) ==
    {BaseName(f) : f \in Glob(files) \ Denylist}

\* The set the module subtracts the denylist from and turns into a list.
Discover(files) == {BaseName(f) : f \in Glob(files)} \ Denylist

\* list(S): the elements of a set, once each, in an order Python chooses.
ListOf(S) ==
    {s \in [1..Cardinality(S) -> S] : \A i, j \in 1..Cardinality(S) : s[i] = s[j] => i = j}

\* path.with_suffix("").name
Stem(f) ==
    LET dots == {i \in 2..Len(f) : SubSeq(f, i, i) = "."}
    IN  IF dots = {} THEN f
        ELSE SubSeq(f, 1, (CHOOSE i \in dots : \A j \in dots : j <= i) - 1)

\* The files of tests/checkers/, as the repository lists them.
CheckersDir == {"rstcheck.py", "README.md"}

\* The names checker_tests is built from: the stems of tests/checkers/*.py.
CheckerNames(files) == {Stem(f) : f \in {g \in files : EndsWith(g, ".py")}}

(***************************************************************************)
(* Operations of a session                                                 *)
(***************************************************************************)
NoKwargs == [k \in {} |-> TRUE]
External == [k \in {"external"} |-> TRUE]
SilentExternal == [k \in {"silent", "external"} |-> TRUE]
Silent == [k \in {"silent"} |-> TRUE]

Cmd(kind, argv, kwargs) == [kind |-> kind, argv |-> argv, kwargs |-> kwargs]

\* What a child process can do: exit zero and print nothing, exit zero and
\* print something, or exit nonzero.
OutcomeKinds == {"ok", "output", "fail"}

\* The same for a command whose output session.run does not return.
ExitKinds == {"ok", "fail"}

DiffText == "diff --git a/tests/static.txt b/tests/static.txt\n"
ExecutableText == "/venv/bin/python\n"

\* The standard output session.run returns for a silent command.
Stdout(cmd, kind) ==
    IF kind = "output" /\ "silent" \in DOMAIN cmd.kwargs
    THEN IF cmd.argv[1] = "git" THEN DiffText ELSE ExecutableText
    ELSE ""

FirstFailure(n, outs) ==
    IF \E i \in 1..n : outs[i] = "fail"
    THEN CHOOSE i \in 1..n : outs[i] = "fail" /\ \A j \in 1..(i - 1) : outs[j] # "fail"
    ELSE 0

Done(cmd, kind) ==
    [kind |-> cmd.kind, argv |-> cmd.argv, kwargs |-> cmd.kwargs,
     exit |-> IF kind = "fail" THEN 1 ELSE 0, out |-> Stdout(cmd, kind)]

ExecuteMutantIgnoreExit(plan, outs) ==
    [i \in 1..Len(plan) |-> Done(plan[i], outs[i])]

\* The operations of a plan that run: session.install and session.run raise
\* CommandFailed on a nonzero exit, which ends the session function.
Execute(plan, outs) ==
    LET ff == FirstFailure(Len(plan), outs)
        n  == IF ff = 0 THEN Len(plan) ELSE ff
    IN  [i \in 1..n |-> Done(plan[i], outs[i])]

Succeeded(done) == \A i \in 1..Len(done) : done[i].exit = 0

\* How a session function that ran `done` and raised nothing else ends.
Ended(done, log) ==
    [status  |-> IF Succeeded(done) THEN "success" ELSE "failed",
     message |-> "", ops |-> done, log |-> log, notify |-> <<>>]

\* session.error(message) before or after the operations `done`.
Aborted(done, log, message) ==
    [status |-> "aborted", message |-> message, ops |-> done, log |-> log,
     notify |-> <<>>]

\* install(session, req=req) as an operation of a session.
InstallCmd(req) ==
    LET c == InstallCall(req, <<>>, NoKwargs)
    IN  Cmd("install", c.argv, c.kwargs)

Range(s) == {s[i] : i \in 1..Len(s)}

\* list.remove(x): the list without the first occurrence of x.
Remove(s, x) ==
    LET i == CHOOSE k \in 1..Len(s) : s[k] = x /\ \A j \in 1..(k - 1) : s[j] # x
    IN  SubSeq(s, 1, i - 1) \o SubSeq(s, i + 1, Len(s))

\* str.strip(): without the whitespace at both ends.
Whitespace == {" ", "\n", "\t", "\r"}

RECURSIVE Strip(_)
Strip(s) ==
    IF s = "" THEN ""
    ELSE IF SubSeq(s, 1, 1) \in Whitespace THEN Strip(SubSeq(s, 2, Len(s)))
    ELSE IF SubSeq(s, Len(s), Len(s)) \in Whitespace
         THEN Strip(SubSeq(s, 1, Len(s) - 1))
    ELSE s

(***************************************************************************)
(* _relaxed_parser: an ArgumentParser with --relaxed / --no-relaxed, and   *)
(* for make a positional make_args with nargs="*".  The "--" separator is  *)
(* not modelled.                                                           *)
(***************************************************************************)
LongOptions == {"--help", "--relaxed", "--no-relaxed"}

\* The long options an argument abbreviates (argparse allows prefixes).
Abbreviates(arg) == {o \in LongOptions : StartsWith(arg, "--") /\ Len(arg) > 2 /\ StartsWith(o, arg)}

ArgClass(arg) ==
    IF arg = "-h" \/ arg \in LongOptions
        THEN (IF arg = "-h" THEN "--help" ELSE arg)
    ELSE IF Cardinality(Abbreviates(arg)) = 1
        THEN CHOOSE o \in Abbreviates(arg) : TRUE
    ELSE IF StartsWith(arg, "-") /\ Len(arg) > 1 THEN "error"
    ELSE "positional"

\* The value --relaxed ends with: the last of --relaxed / --no-relaxed wins.
RECURSIVE Relaxed(_, _)
Relaxed(args, value) ==
    IF args = <<>> THEN value
    ELSE Relaxed(Tail(args),
                 CASE ArgClass(Head(args)) = "--relaxed" -> TRUE
                   [] ArgClass(Head(args)) = "--no-relaxed" -> FALSE
                   [] OTHER -> value)

RECURSIVE Positionals(_)
Positionals(args) ==
    IF args = <<>> THEN <<>>
    ELSE IF ArgClass(Head(args)) = "positional"
         THEN <<Head(args)>> \o Positionals(Tail(args))
         ELSE Positionals(Tail(args))

\* parser.parse_args(args): the namespace, or the exit argparse makes
\* (status 0 after --help, status 2 on an argument it does not accept).
ParseArgs(args, positional) ==
    LET classes == {ArgClass(args[i]) : i \in 1..Len(args)}
        bad == "error" \in classes \/ (~positional /\ "positional" \in classes)
    IN  IF "--help" \in classes \/ bad
        THEN [exits |-> TRUE, relaxed |-> FALSE, make_args |-> <<>>]
        ELSE [exits |-> FALSE, relaxed |-> Relaxed(args, FALSE),
              make_args |-> IF positional THEN Positionals(args) ELSE <<>>]

\* SystemExit out of a session function: nox does not catch it.
Exited == [status |-> "exit", message |-> "", ops |-> <<>>, log |-> <<>>,
           notify |-> <<>>]

RelaxedReq(ns) == IF ns.relaxed THEN "requirements-relaxed" ELSE "requirements"

\* _clone_core_check(session)
CloneCoreCheckCmd == Cmd("run", <<"python", "docs/bin/clone-core.py", "--check">>, NoKwargs)

(***************************************************************************)
(* The session functions: what each does with session.posargs `pos` when   *)
(* its child processes end as `outs` says.                                 *)
(***************************************************************************)
StaticRun(pos, outs) ==
    Ended(Execute(<<InstallCmd("static"),
                    Cmd("run", <<"ruff", "check">> \o pos \o LINT_FILES, NoKwargs)>>, outs),
          InstallLog("static"))

FormattersRun(pos, outs) ==
    Ended(Execute(<<InstallCmd("formatters"),
                    Cmd("run", <<"isort">> \o pos \o LINT_FILES, NoKwargs),
                    Cmd("run", <<"black">> \o pos \o LINT_FILES, NoKwargs)>>, outs),
          InstallLog("formatters"))

FormattersCheckRun(pos, outs) ==
    Ended(Execute(<<InstallCmd("formatters"),
                    Cmd("run", <<"isort", "--check">> \o pos \o LINT_FILES, NoKwargs),
                    Cmd("run", <<"black", "--check">> \o pos \o LINT_FILES, NoKwargs)>>, outs),
          InstallLog("formatters"))

TypingRun(pos, outs) ==
    Ended(Execute(<<InstallCmd("typing"),
                    Cmd("run", <<"mypy">> \o pos \o LINT_FILES, NoKwargs)>>, outs),
          InstallLog("typing"))

SpellingRun(pos, outs) ==
    Ended(Execute(<<InstallCmd("spelling"),
                    Cmd("run", <<"codespell", "docs/docsite">> \o pos, NoKwargs)>>, outs),
          InstallLog("spelling"))

ActionlintRun(pos, outs) ==
    LET engine == GetContainerEngine
    IN  IF engine.status = "error" THEN Aborted(<<>>, <<>>, engine.message)
        ELSE Ended(Execute(
                <<Cmd("run_always", <<engine.path[1], "pull", ACTIONLINT_IMAGE>>, External),
                  Cmd("run", <<engine.path[1], "run", "--rm", "--volume", "/cwd:/pwd:z",
                               "--workdir", "/pwd", ACTIONLINT_IMAGE>> \o pos, External)>>,
                outs), <<>>)

LintTargetsMutantFormattersCheck ==
    <<"typing", "static", "formatters", "formatters_check", "spelling", "actionlint">>

\* The names lint passes to session.notify.
LintTargets == <<"typing", "static", "formatters", "spelling", "actionlint">>

LintRun(pos, outs) ==
    [status |-> "success", message |-> "", ops |-> <<>>, log |-> <<>>,
     notify |-> LintTargets]

UpgradeOptOut == {"-P", "--upgrade-package", "--no-upgrade"}

PipCompileArgsMutantNoUpgrade(pos) ==
    IF "--check" \in Range(pos) THEN Remove(pos, "--check") ELSE pos

\* The list `args` pip_compile forwards to pip-compile.
PipCompileArgs(pos) ==
    IF "--check" \in Range(pos) THEN Remove(pos, "--check")
    ELSE IF ~\E i \in 1..Len(pos) : StartsWithAny(pos[i], UpgradeOptOut)
         THEN Append(pos, "--upgrade")
    ELSE pos

PipCompilePlanMutantAlwaysDiff(pos, req) ==
    <<Cmd("install", <<"pip-tools >= 7", "pip < 24.3">>, NoKwargs),
      Cmd("run", <<"pip-compile", "--output-file", ConstraintPath(req)>>
                 \o PipCompileArgs(pos) \o <<InputPath(req)>>, NoKwargs),
      Cmd("run", <<"git", "diff", "tests">>, SilentExternal)>>

PipCompilePlan(pos, req) ==
    <<Cmd("install", <<"pip-tools >= 7", "pip < 24.3">>, NoKwargs),
      Cmd("run", <<"pip-compile", "--output-file", ConstraintPath(req)>>
                 \o PipCompileArgs(pos) \o <<InputPath(req)>>, NoKwargs)>>
    \o (IF "--check" \in Range(pos)
        THEN <<Cmd("run", <<"git", "diff", "tests">>, SilentExternal)>> ELSE <<>>)

PipCompileRun(pos, req, outs) ==
    LET check_mode == "--check" \in Range(pos)
        done == Execute(PipCompilePlan(pos, req), outs)
    IN  IF check_mode /\ Succeeded(done) /\ done[Len(done)].out # ""
        THEN Aborted(done, <<>>, "Check mode: files were changed")
        ELSE Ended(done, <<>>)

CloneCoreRun(pos, outs) ==
    Ended(Execute(<<Cmd("run_always", <<"python", "docs/bin/clone-core.py">> \o pos,
                        NoKwargs)>>, outs), <<>>)

CheckersRun(pos, test, outs) ==
    LET args == ParseArgs(pos, FALSE)
    IN  IF args.exits THEN Exited
        ELSE Ended(Execute(
                <<InstallCmd(RelaxedReq(args)),
                  CloneCoreCheckCmd,
                  Cmd("run", <<"make", "-C", "docs/docsite", "clean">>, External),
                  Cmd("run", <<"python", "tests/checkers.py", test>>, NoKwargs)>>, outs),
                InstallLog(RelaxedReq(args)))

\* _env_python(session)
EnvPythonCmd ==
    Cmd("run", <<"python", "-c", "import sys; print(sys.executable)">>, Silent)

MakeRun(pos, outs) ==
    LET args == ParseArgs(pos, TRUE)
        targets == IF args.make_args # <<>> THEN args.make_args
                   ELSE <<"clean", "coredocs">>
        python == Strip(Stdout(EnvPythonCmd, outs[3]))
    IN  IF args.exits THEN Exited
        ELSE Ended(Execute(
                <<InstallCmd(RelaxedReq(args)),
                  CloneCoreCheckCmd,
                  EnvPythonCmd,
                  Cmd("run", <<"make", "-C", "docs/docsite", "PYTHON=" \o python>>
                             \o targets, External)>>, outs),
                InstallLog(RelaxedReq(args)))

TagCommands == {"hash", "mantag", "new-tags", "tag"}

TagArgs(pos) ==
    IF ~\E i \in 1..Len(pos) : StartsWithAny(pos[i], TagCommands)
    THEN Append(pos, "tag") ELSE pos

TagRun(pos, outs) ==
    Ended(Execute(<<InstallCmd("tag"),
                    Cmd("run", <<"python", "hacking/tagger/tag.py">> \o TagArgs(pos),
                        NoKwargs)>>, outs),
          InstallLog("tag"))

(***************************************************************************)
(* The manifest: the registered sessions, the queue and session.notify     *)
(***************************************************************************)
Session(name) == [name |-> name, param |-> None]

Variant(name, param) == [name |-> name, param |-> Some(param)]

\* Every registered session, in the order the module registers them.
AllSessions(reqs, tests) ==
    <<Session("static"), Session("formatters"), Session("formatters_check"),
      Session("typing"), Session("spelling"), Session("actionlint"), Session("lint")>>
    \o [i \in 1..Len(reqs) |-> Variant("pip-compile", reqs[i])]
    \o <<Session("clone-core")>>
    \o [i \in 1..Len(tests) |-> Variant("checkers", tests[i])]
    \o <<Session("make"), Session("tag")>>

Named(sessions, name) == SelectSeq(sessions, LAMBDA x : x.name = name)

\* The queue nox builds for the session names given on the command line.
RECURSIVE QueueFor(_, _)
QueueFor(names, all) ==
    IF names = <<>> THEN <<>>
    ELSE Named(all, Head(names)) \o QueueFor(Tail(names), all)

\* session.notify(name): a no-op when a session of that name is in the queue
\* or was run already; otherwise the first session of that name is enqueued.
Notify(q, done, all, name) ==
    IF Named(q \o done, name) # <<>> \/ Named(all, name) = <<>> THEN q
    ELSE Append(q, Head(Named(all, name)))

RECURSIVE NotifyAll(_, _, _, _)
NotifyAll(q, done, all, names) ==
    IF names = <<>> THEN q
    ELSE NotifyAll(Notify(q, done, all, Head(names)), done, all, Tail(names))

(***************************************************************************)
(* Actions                                                                 *)
(***************************************************************************)
\* Importing noxfile.py: the module-level lists are computed, the sessions
\* are registered and the selected ones are queued.
LoadNoxfile ==
    /\ ~loaded
    /\ loaded' = TRUE
    /\ \E reqs \in ListOf(Discover(testsDir)),
          tests \in ListOf(CheckerNames(CheckersDir)) :
            /\ requirements_files' = reqs
            /\ checker_tests' = tests
            /\ queue' = QueueFor(selected, AllSessions(reqs, tests))
    /\ UNCHANGED <<environ, onPath, testsDir, selected, call, logged, resolved,
                   posargs, consumed, notified, ops, result>>

Registered == AllSessions(requirements_files, checker_tests)

Current(name) == loaded /\ queue # <<>> /\ Head(queue).name = name

\* The manifest takes the head of the queue, the session function runs and
\* ends as r; SystemExit ends the nox process.
Finish(r) ==
    /\ consumed' = Append(consumed, Head(queue))
    /\ queue' = IF r.status = "exit" THEN <<>>
                ELSE NotifyAll(Tail(queue), Append(consumed, Head(queue)),
                               Registered, r.notify)
    /\ notified' = notified \o r.notify
    /\ ops' = r.ops
    /\ logged' = r.log
    /\ result' = [status |-> r.status, message |-> r.message]
    /\ UNCHANGED <<environ, onPath, testsDir, loaded, requirements_files,
                   checker_tests, selected, call, posargs>>

Static ==
    /\ Current("static")
    /\ \E outs \in [1..2 -> ExitKinds] : \E r \in {StaticRun(posargs, outs)} : Finish(r)
    /\ UNCHANGED resolved

Formatters ==
    /\ Current("formatters")
    /\ \E outs \in [1..3 -> ExitKinds] : \E r \in {FormattersRun(posargs, outs)} : Finish(r)
    /\ UNCHANGED resolved

FormattersCheck ==
    /\ Current("formatters_check")
    /\ \E outs \in [1..3 -> ExitKinds] : \E r \in {FormattersCheckRun(posargs, outs)} : Finish(r)
    /\ UNCHANGED resolved

Typing ==
    /\ Current("typing")
    /\ \E outs \in [1..2 -> ExitKinds] : \E r \in {TypingRun(posargs, outs)} : Finish(r)
    /\ UNCHANGED resolved

Spelling ==
    /\ Current("spelling")
    /\ \E outs \in [1..2 -> ExitKinds] : \E r \in {SpellingRun(posargs, outs)} : Finish(r)
    /\ UNCHANGED resolved

Actionlint ==
    /\ Current("actionlint")
    /\ \E outs \in [1..2 -> ExitKinds] : \E r \in {ActionlintRun(posargs, outs)} : Finish(r)
    /\ resolved' = Some(GetContainerEngine)

Lint ==
    /\ Current("lint")
    /\ \E r \in {LintRun(posargs, <<>>)} : Finish(r)
    /\ UNCHANGED resolved

PipCompile ==
    /\ Current("pip-compile")
    /\ \E outs \in [1..3 -> OutcomeKinds] :
          \E r \in {PipCompileRun(posargs, Head(queue).param[1], outs)} : Finish(r)
    /\ UNCHANGED resolved

CloneCore ==
    /\ Current("clone-core")
    /\ \E outs \in [1..1 -> ExitKinds] : \E r \in {CloneCoreRun(posargs, outs)} : Finish(r)
    /\ UNCHANGED resolved

Checkers ==
    /\ Current("checkers")
    /\ \E outs \in [1..4 -> ExitKinds] :
          \E r \in {CheckersRun(posargs, Head(queue).param[1], outs)} : Finish(r)
    /\ UNCHANGED resolved

Make ==
    /\ Current("make")
    /\ \E outs \in [1..4 -> OutcomeKinds] : \E r \in {MakeRun(posargs, outs)} : Finish(r)
    /\ UNCHANGED resolved

Tag ==
    /\ Current("tag")
    /\ \E outs \in [1..2 -> ExitKinds] : \E r \in {TagRun(posargs, outs)} : Finish(r)
    /\ UNCHANGED resolved

\* A call of install(session, *args, req=req, **kwargs) on its own.
Install ==
    /\ call # None /\ ops = <<>>
    /\ \E kind \in {"ok", "fail"} :
          LET c == InstallCall(call[1].req, call[1].args, call[1].kwargs)
              r == Ended(Execute(<<Cmd("install", c.argv, c.kwargs)>>, <<kind>>),
                         InstallLog(call[1].req))
          IN  /\ ops' = r.ops
              /\ logged' = r.log
              /\ result' = [status |-> r.status, message |-> r.message]
    /\ UNCHANGED <<environ, onPath, testsDir, loaded, requirements_files,
                   checker_tests, selected, call, resolved, posargs, queue,
                   consumed, notified>>

\* A call of _get_container_engine(session) on its own.
ResolveEngine ==
    /\ resolved = None
    /\ resolved' = Some(GetContainerEngine)
    /\ UNCHANGED <<environ, onPath, testsDir, loaded, requirements_files,
                   checker_tests, selected, call, logged, posargs, queue,
                   consumed, notified, ops, result>>

(***************************************************************************)
(* Inputs and the specifications                                           *)
(***************************************************************************)
MaxPosargs == 2

\* The sequences over S of length at most n.
SeqUpTo(S, n) == UNION {[1..k -> S] : k \in 0..n}

\* All dictionaries with keys among K and values in V.
Dicts(K, V) == UNION {[D -> V] : D \in SUBSET K}

PosargTokens ==
    {"--check", "-Pfoo", "--upgrade-package=nox", "--no-upgrade", "--relaxed", "html"}

PinnedValues == {"true", "TRUE", "1", "false", "0", ""}

EngineValues == {"", "podman", "docker", "nerdctl"}

Executables == {"podman", "docker", "nerdctl", "lima"}

\* A listing of tests/ with one requirement set and the constraint files.
RepoTests == {"constraints.in", "constraints-base.in", "static.in", "static.txt"}

TestsFiles ==
    {"constraints.in", "constraints-base.in", "constraints.in.in", "static.in",
     "static.in.in", "static.txt", "typing.in", "plugin"}

SessionNames ==
    {"static", "formatters", "formatters_check", "typing", "spelling", "actionlint",
     "lint", "pip-compile", "clone-core", "checkers", "make", "tag"}

\* The command lines: no -s (the default sessions), one session, or lint
\* together with one of the sessions it notifies.
Selections ==
    {DefaultSessions} \cup {<<n>> : n \in SessionNames}
    \cup {<<LintTargets[i], "lint">> : i \in 1..Len(LintTargets)}
    \cup {<<"lint", LintTargets[i]>> : i \in 1..Len(LintTargets)}

NoResult == [status |-> "none", message |-> ""]

\* The nox process before it imports noxfile.py.
Start ==
    /\ loaded = FALSE
    /\ requirements_files = <<>>
    /\ checker_tests = <<>>
    /\ call = None
    /\ logged = <<>>
    /\ resolved = None
    /\ queue = <<>>
    /\ consumed = <<>>
    /\ notified = <<>>
    /\ ops = <<>>
    /\ result = NoResult

\* noxfile.py imported in the repository, no session selected.
Imported ==
    /\ testsDir = RepoTests
    /\ loaded = TRUE
    /\ requirements_files \in ListOf(Discover(RepoTests))
    /\ checker_tests \in ListOf(CheckerNames(CheckersDir))
    /\ selected = <<>>
    /\ posargs = <<>>
    /\ logged = <<>>
    /\ queue = <<>>
    /\ consumed = <<>>
    /\ notified = <<>>
    /\ ops = <<>>
    /\ result = NoResult

\* Two hosts: a default environment with docker installed, and one with
\* pinning off whose CONTAINER_ENGINE names an engine that is not installed.
Hosts ==
    {[environ |-> [k \in {} |-> ""], onPath |-> {"docker"}],
     [environ |-> [PINNED |-> "false", CONTAINER_ENGINE |-> "nerdctl"],
      onPath |-> {"podman", "docker"}]}

Init ==
    /\ \E h \in Hosts : environ = h.environ /\ onPath = h.onPath
    /\ testsDir = RepoTests
    /\ selected \in Selections
    /\ posargs \in SeqUpTo(PosargTokens, MaxPosargs)
    /\ Start

Next ==
    \/ LoadNoxfile
    \/ Static
    \/ Formatters
    \/ FormattersCheck
    \/ Typing
    \/ Spelling
    \/ Actionlint
    \/ Lint
    \/ PipCompile
    \/ CloneCore
    \/ Checkers
    \/ Make
    \/ Tag

Spec == Init /\ [][Next]_vars

CallerEnvKeys == {"PIP_CONSTRAINT", "UV_BUILD_CONSTRAINT", "HOME"}
CallerEnvValues == {"tests/other.txt", "/root"}

\* The keyword arguments a caller gives install(): env and silent, or neither.
CallerKwargs ==
    {Update(e, q) : e \in Dicts({"env"}, Dicts(CallerEnvKeys, CallerEnvValues)),
                    q \in Dicts({"silent"}, {TRUE})}

InitInstall ==
    /\ environ \in Dicts({"PINNED"}, PinnedValues)
    /\ onPath = {}
    /\ call \in {Some([req |-> r, args |-> a, kwargs |-> k]) :
                    r \in {"typing", "requirements-relaxed"},
                    a \in {<<>>, <<"--upgrade">>}, k \in CallerKwargs}
    /\ resolved = None
    /\ Imported

SpecInstall == InitInstall /\ [][Install]_vars

InitEngine ==
    /\ environ \in Dicts({"CONTAINER_ENGINE"}, EngineValues)
    /\ onPath \in SUBSET Executables
    /\ call = None
    /\ resolved = None
    /\ Imported

SpecEngine == InitEngine /\ [][ResolveEngine]_vars

InitDiscovery ==
    /\ environ = [k \in {} |-> ""]
    /\ onPath = {}
    /\ testsDir \in SUBSET TestsFiles
    /\ selected = <<"pip-compile">>
    /\ posargs = <<>>
    /\ Start

SpecDiscovery == InitDiscovery /\ [][LoadNoxfile]_vars

(***************************************************************************)
(* Properties                                                              *)
(***************************************************************************)
LastRan(name) == consumed # <<>> /\ consumed[Len(consumed)].name = name

Count(s, x) == Cardinality({i \in 1..Len(s) : s[i] = x})

Names(s) == {s[i].name : i \in 1..Len(s)}

\* pip_compile got as far as running pip-compile: ops[2] is that command.
RanPipCompile == LastRan("pip-compile") /\ Len(ops) >= 2

\* C1: in the pip-compile session, whenever the passthrough arguments contain
\* "--check", the forwarded list is the passthrough list less one "--check"
\* and "--check" does not appear in the command passed to pip-compile, also
\* when "--check" was given more than once.
C1_CheckNeverForwarded ==
    (RanPipCompile /\ "--check" \in Range(posargs)) =>
        /\ Len(ops[2].argv) = 4 + Len(posargs) - 1
        /\ "--check" \notin Range(ops[2].argv)

\* Pinning is enabled when PINNED is unset or, ignoring case, "1" or "true".
PinningEnabled ==
    "PINNED" \notin DOMAIN environ \/ environ["PINNED"] \in {"1", "true", "TRUE"}

\* C2: with pinning enabled install() passes exactly the three constraint
\* variables PIP_CONSTRAINT, UV_CONSTRAINT and UV_BUILD_CONSTRAINT, all equal
\* to tests/<req>.txt; with pinning disabled it adds no variable. Either way
\* it installs from -r tests/<req>.in followed by the caller's arguments.
C2_PinningSetsThreeVariables ==
    (call # None /\ ops # <<>>) =>
        LET c == call[1]
            kw == ops[1].kwargs
            given == IF "env" \in DOMAIN c.kwargs THEN DOMAIN c.kwargs["env"] ELSE {}
        IN  /\ ops[1].argv = <<"-r", "tests/" \o c.req \o ".in">> \o c.args
            /\ PinningEnabled =>
                  /\ "env" \in DOMAIN kw
                  /\ DOMAIN kw["env"] \ given
                        = {"PIP_CONSTRAINT", "UV_CONSTRAINT", "UV_BUILD_CONSTRAINT"} \ given
                  /\ \A k \in {"PIP_CONSTRAINT", "UV_CONSTRAINT", "UV_BUILD_CONSTRAINT"} :
                        k \in DOMAIN kw["env"] /\ kw["env"][k] = "tests/" \o c.req \o ".txt"
                  /\ logged = <<"export PIP_CONSTRAINT=tests/" \o c.req \o ".txt",
                                "export UV_CONSTRAINT=tests/" \o c.req \o ".txt",
                                "export UV_BUILD_CONSTRAINT=tests/" \o c.req \o ".txt">>
            /\ ~PinningEnabled => kw = c.kwargs /\ logged = <<>>

C2_Witness ==
    /\ call # None /\ ops # <<>>
    /\ "PINNED" \notin DOMAIN environ
    /\ call[1].req = "typing"
    /\ "env" \notin DOMAIN call[1].kwargs
    /\ ops[1].kwargs["env"] = [k \in {"PIP_CONSTRAINT", "UV_CONSTRAINT", "UV_BUILD_CONSTRAINT"}
                                  |-> "tests/typing.txt"]

\* C3: with pinning enabled and an env mapping given by the caller, the env
\* handed to session.install is the caller's mapping with the three pinning
\* variables replacing entries of the same name; every other entry of the
\* caller's env and every other keyword argument is passed on unchanged.
C3_PinningOverridesCallerEnv ==
    (call # None /\ ops # <<>> /\ PinningEnabled /\ "env" \in DOMAIN call[1].kwargs) =>
        LET c == call[1]
            kw == ops[1].kwargs
            pins == {"PIP_CONSTRAINT", "UV_CONSTRAINT", "UV_BUILD_CONSTRAINT"}
        IN  /\ DOMAIN kw = DOMAIN c.kwargs
            /\ \A k \in DOMAIN c.kwargs \ {"env"} : kw[k] = c.kwargs[k]
            /\ DOMAIN kw["env"] = DOMAIN c.kwargs["env"] \cup pins
            /\ \A k \in pins : kw["env"][k] = "tests/" \o c.req \o ".txt"
            /\ \A k \in DOMAIN c.kwargs["env"] \ pins : kw["env"][k] = c.kwargs["env"][k]

C3_Witness ==
    /\ call # None /\ ops # <<>> /\ PinningEnabled
    /\ call[1].req = "typing"
    /\ DOMAIN call[1].kwargs = {"env", "silent"}
    /\ call[1].kwargs["env"] = [PIP_CONSTRAINT |-> "tests/other.txt", HOME |-> "/root"]
    /\ ops[1].kwargs["env"]["PIP_CONSTRAINT"] = "tests/typing.txt"
    /\ ops[1].kwargs["env"]["HOME"] = "/root"

\* The override does not resolve: shutil.which finds no executable of that name.
OverrideUnresolved ==
    "CONTAINER_ENGINE" \in DOMAIN environ /\ environ["CONTAINER_ENGINE"] \notin onPath

\* Only the override was looked up, and the call ended in an error.
FailedOnOverride ==
    /\ resolved[1].status = "error"
    /\ resolved[1].path = None
    /\ resolved[1].probed = <<environ["CONTAINER_ENGINE"]>>

\* C4 as claimed: whenever CONTAINER_ENGINE is set and does not resolve,
\* _get_container_engine fails without probing podman and docker.
C4_SetOverrideNeverFallsBack ==
    (resolved # None /\ OverrideUnresolved) => FailedOnOverride

\* C4: whenever CONTAINER_ENGINE is set to a non-empty name that does not
\* resolve, _get_container_engine fails with an error, having looked up only
\* that name: it returns no path even when podman or docker is installed.
C4_NonEmptyOverrideNeverFallsBack ==
    (resolved # None /\ OverrideUnresolved /\ environ["CONTAINER_ENGINE"] # "") =>
        FailedOnOverride

C4_Witness ==
    /\ resolved # None
    /\ "CONTAINER_ENGINE" \in DOMAIN environ /\ environ["CONTAINER_ENGINE"] = "nerdctl"
    /\ onPath = {"podman", "docker"}
    /\ resolved[1].status = "error"

\* C5: with no CONTAINER_ENGINE override (unset, or empty) the call returns
\* the path of podman when podman is installed, else that of docker when
\* docker is installed, and fails exactly when neither is.
C5_FirstCandidateFound ==
    (resolved # None /\ ("CONTAINER_ENGINE" \in DOMAIN environ => environ["CONTAINER_ENGINE"] = "")) =>
        /\ "podman" \in onPath =>
              resolved[1].status = "ok" /\ resolved[1].path = <<"/usr/bin/podman">>
        /\ ("podman" \notin onPath /\ "docker" \in onPath) =>
              resolved[1].status = "ok" /\ resolved[1].path = <<"/usr/bin/docker">>
        /\ resolved[1].status = "error" <=> ("podman" \notin onPath /\ "docker" \notin onPath)
        /\ resolved[1].status = "error" => resolved[1].path = None

C5_Witness ==
    /\ resolved # None
    /\ "CONTAINER_ENGINE" \notin DOMAIN environ
    /\ {"podman", "docker"} \subseteq onPath
    /\ resolved[1].path = <<"/usr/bin/podman">>

\* C6: in the pip-compile session, when "--check" is given and pip-compile
\* succeeds, git diff tests runs next; the session is aborted with "Check
\* mode: files were changed" if the diff prints anything and succeeds if it
\* exits zero and prints nothing. Without "--check" git diff never runs.
C6_CheckModeDiff ==
    LastRan("pip-compile") =>
        /\ ("--check" \in Range(posargs) /\ Len(ops) >= 2 /\ ops[2].exit = 0) =>
              /\ Len(ops) = 3
              /\ ops[3].argv = <<"git", "diff", "tests">>
              /\ ops[3].out # "" =>
                    result = [status |-> "aborted",
                              message |-> "Check mode: files were changed"]
              /\ (ops[3].exit = 0 /\ ops[3].out = "") => result.status = "success"
        /\ "--check" \notin Range(posargs) =>
              \A i \in 1..Len(ops) : ops[i].argv[1] # "git"

C6_Witness ==
    /\ LastRan("pip-compile")
    /\ posargs = <<"--check">>
    /\ Len(ops) = 3 /\ ops[2].argv[1] = "pip-compile" /\ ops[3].out # ""
    /\ result.message = "Check mode: files were changed"

\* C7: in every session a nonzero exit is the last operation of the session
\* and makes it fail: no install or run follows a failed one.
C7_FailureAborts ==
    /\ \A i \in 1..Len(ops) : ops[i].exit # 0 => (i = Len(ops) /\ result.status = "failed")
    /\ (LastRan("formatters") /\ Len(ops) >= 2 /\ ops[2].exit # 0) =>
          \A i \in 1..Len(ops) : ops[i].argv[1] # "black"
    /\ (LastRan("pip-compile") /\ Len(ops) >= 2 /\ ops[2].exit # 0) =>
          \A i \in 1..Len(ops) : ops[i].argv[1] # "git"

C7_Witness ==
    /\ LastRan("formatters")
    /\ Len(ops) = 2 /\ ops[2].argv[1] = "isort" /\ ops[2].exit = 1
    /\ result.status = "failed"

\* C8: lint notifies exactly typing, static, formatters, spelling and
\* actionlint and installs and runs nothing itself; once it has run each of
\* the five is queued or already run, exactly once, and no session is ever
\* run twice.
C8_LintSchedulesFive ==
    LET five == {"typing", "static", "formatters", "spelling", "actionlint"}
    IN  /\ \A i, j \in 1..Len(consumed) : consumed[i] = consumed[j] => i = j
        /\ "lint" \notin Names(consumed) => notified = <<>>
        /\ "lint" \in Names(consumed) =>
              /\ Len(notified) = 5
              /\ Range(notified) = five
        /\ LastRan("lint") =>
              /\ ops = <<>>
              /\ logged = <<>>
              /\ result.status = "success"
              /\ \A t \in five :
                    Cardinality({i \in 1..Len(consumed \o queue) :
                                    (consumed \o queue)[i].name = t}) = 1
              /\ Names(queue) \subseteq five \cup Range(selected)

C8_Witness ==
    /\ selected = <<"typing", "lint">>
    /\ Len(consumed) = 6 /\ queue = <<>>
    /\ consumed[1].name = "typing" /\ consumed[2].name = "lint"
    /\ LastRan("actionlint")

\* C9: whatever files tests/ holds, requirements_files contains neither
\* "constraints" nor "constraints-base", and the base name of every other
\* file ending in "in" appears in it exactly once, and nothing else does.
C9_DiscoveryExcludesDenylist ==
    loaded =>
        /\ "constraints" \notin Range(requirements_files)
        /\ "constraints-base" \notin Range(requirements_files)
        /\ \A f \in Glob(testsDir) :
              BaseName(f) \notin {"constraints", "constraints-base"} =>
                  Count(requirements_files, BaseName(f)) = 1
        /\ \A i \in 1..Len(requirements_files) :
              \E f \in Glob(testsDir) : requirements_files[i] = BaseName(f)
        /\ ("static.in" \in testsDir /\ "static.in.in" \in testsDir) =>
              Count(requirements_files, "static") = 1

C9_Witness ==
    /\ loaded
    /\ {"constraints.in", "constraints-base.in", "static.in", "static.in.in"} \subseteq testsDir
    /\ "typing.in" \in testsDir
    /\ Len(requirements_files) = 2
    /\ requirements_files[1] = "typing" /\ requirements_files[2] = "static"

====
